---- MODULE Spec2Model ----
(***************************************************************************)
(* grid-resize: the grid geometry (Grid, Selection, correct_dimensions)    *)
(* and the interactive session (GridReize::run and its event handlers) of  *)
(* src/src/main.rs.                                                        *)
(*                                                                         *)
(* Machine integers.  TLC's integers stop at 2^31 - 1, so a u32 (or the    *)
(* 64-bit Time) is held as the integer of -2^(w-1) .. 2^(w-1) - 1 that is  *)
(* congruent to it modulo 2^w: the bit pattern read as a signed number.    *)
(* A negative representative therefore stands for an unsigned value of at  *)
(* least 2^(w-1).  A Rust cast `x as u32` of an i32 keeps the bit pattern, *)
(* so it keeps the representative; what changes is how it is compared      *)
(* (ULt) and what a subtraction that wraps yields (a negative              *)
(* representative).  Within the bounds below every product i * cell_width  *)
(* is far below 2^31.                                                      *)
(***************************************************************************)
EXTENDS Integers, Sequences, FiniteSets, TLC

VARIABLES
  args,              \* the command line: x, y, width, height, cells, live
  overflow_checks,   \* the build: TRUE panics on integer overflow (debug), FALSE wraps (release)
  x, y,              \* GridReize.x, .y           (overlay origin, root coordinates)
  width, height,     \* GridReize.width, .height  (overlay size)
  grid,              \* GridReize.grid
  selection,         \* GridReize.selection
  left_button_held,  \* GridReize.left_button_held (the "resetting" flag)
  running,           \* GridReize.running
  last_box,          \* GridReize.last_box
  live,              \* GridReize.live
  last_motion,       \* GridReize.last_motion
  pc,                \* position of the process: "new", "loop", "done", "error", "panic"
                     \* ("geom", "evaluated" in the geometry specification; the step of
                     \* GridReize::new, or "failed", in the construction specification)
  frame,             \* the box the overlay shows: Selection::get at the last completed redraw
  ev,                \* the event dispatched by the last loop iteration (type, button, keysym)
  iter,              \* what the last loop iteration did: redraws and move_and_resize calls
  n_resizes,         \* move_and_resize invocations so far
  applied,           \* the geometry of the last move_and_resize, <<>> before the first
  ret,               \* geometry specification: the values returned for the inputs
  res,               \* the X resources: overlay window, GC, display connection, input
                     \* focus, and the teardown calls made so far, in order
  queue,             \* the events delivered to the overlay and not yet returned by next_event
  cmd,               \* construction specification: the command line as text, and the X server
  failure            \* why GridReize::new or run() failed, "none" if it has not

vars == <<args, overflow_checks, x, y, width, height, grid, selection,
          left_button_held, running, last_box, live, last_motion, pc,
          frame, ev, iter, n_resizes, applied, ret, res, queue, cmd, failure>>

(***************************************************************************)
(* Bounds of the model.                                                    *)
(***************************************************************************)
MaxWidth == 5
MaxHeight == 2
MaxVCells == 3
MaxHCells == 2
MaxOrigin == 2
MaxTick == 1
MaxResizes == 2
SessionWidth == 4
SessionCells == 2
MaxQueue == 2

(***************************************************************************)
(* Machine arithmetic.                                                     *)
(***************************************************************************)
\* i32::min, i32::max
Min(a, b) == IF a <= b THEN a ELSE b
Max(a, b) == IF a >= b THEN a ELSE b

\* a < b for two unsigned values given by their representatives
ULt(a, b) == IF (a < 0) = (b < 0) THEN a < b ELSE b < 0
UGt(a, b) == ULt(b, a)

(***************************************************************************)
(* Grid                                                                    *)
(***************************************************************************)
Grid_new(w, h, vertical_cells, horizontal_cells) ==
  [ vertical_cells   |-> vertical_cells,
    horizontal_cells |-> horizontal_cells,
    cell_width       |-> w \div vertical_cells,
    cell_height      |-> h \div horizontal_cells ]

\* for i in i..=cells { if i * size > c as u32 { break; } index = i; }
RECURSIVE lower_scan(_, _, _, _, _)
lower_scan(i, cells, size, c, index) ==
  IF i > cells THEN index
  ELSE IF UGt(i * size, c) THEN index
  ELSE lower_scan(i + 1, cells, size, c, i)

\* lower_bound with the index assigned before the test: the first boundary past the point
RECURSIVE lower_scan_late(_, _, _, _, _)
lower_scan_late(i, cells, size, c, index) ==
  IF i > cells THEN index
  ELSE IF UGt(i * size, c) THEN i
  ELSE lower_scan_late(i + 1, cells, size, c, i)

lower_bound_late(g, px, py) ==
  << lower_scan_late(0, g.vertical_cells, g.cell_width, px, 0),
     lower_scan_late(0, g.horizontal_cells, g.cell_height, py, 0) >>

lower_bound(g, px, py) ==
  << lower_scan(0, g.vertical_cells, g.cell_width, px, 0),
     lower_scan(0, g.horizontal_cells, g.cell_height, py, 0) >>

\* for i in i..=cells { if i * size > c as u32 { index = i; break; } }
RECURSIVE upper_scan(_, _, _, _, _)
upper_scan(i, cells, size, c, index) ==
  IF i > cells THEN index
  ELSE IF UGt(i * size, c) THEN i
  ELSE upper_scan(i + 1, cells, size, c, index)

\* upper_bound breaking at i * size >= c: a point on a boundary keeps that boundary
RECURSIVE upper_scan_inclusive(_, _, _, _, _)
upper_scan_inclusive(i, cells, size, c, index) ==
  IF i > cells THEN index
  ELSE IF ~ULt(i * size, c) THEN i
  ELSE upper_scan_inclusive(i + 1, cells, size, c, index)

upper_bound_inclusive(g, px, py) ==
  << upper_scan_inclusive(0, g.vertical_cells, g.cell_width, px, 0),
     upper_scan_inclusive(0, g.horizontal_cells, g.cell_height, py, 0) >>

upper_bound(g, px, py) ==
  << upper_scan(0, g.vertical_cells, g.cell_width, px, 0),
     upper_scan(0, g.horizontal_cells, g.cell_height, py, 0) >>

position(g, index) == << index[1] * g.cell_width, index[2] * g.cell_height >>

(***************************************************************************)
(* Selection                                                               *)
(***************************************************************************)
Selection_new(px, py) == [ p1_x |-> px, p1_y |-> py, p2_x |-> px, p2_y |-> py ]

\* get without the sort of the points
get_unsorted(sel, g) ==
  << lower_bound(g, sel.p1_x, sel.p1_y), upper_bound(g, sel.p2_x, sel.p2_y) >>

\* get taking both corners with lower_bound
get_lower_twice(sel, g) ==
  LET p1_x == Min(sel.p1_x, sel.p2_x)
      p2_x == Max(sel.p1_x, sel.p2_x)
      p1_y == Min(sel.p1_y, sel.p2_y)
      p2_y == Max(sel.p1_y, sel.p2_y)
  IN  << lower_bound(g, p1_x, p1_y), lower_bound(g, p2_x, p2_y) >>

get(sel, g) ==
  LET p1_x == Min(sel.p1_x, sel.p2_x)
      p2_x == Max(sel.p1_x, sel.p2_x)
      p1_y == Min(sel.p1_y, sel.p2_y)
      p2_y == Max(sel.p1_y, sel.p2_y)
  IN  << lower_bound(g, p1_x, p1_y), upper_bound(g, p2_x, p2_y) >>

\* p2.0 - p1.0 or p2.1 - p1.1 is below zero: a u32 subtraction that overflows
get_dimensions_overflows(sel, g) ==
  LET box == get(sel, g)
      p1 == position(g, box[1])
      p2 == position(g, box[2])
  IN  p2[1] < p1[1] \/ p2[2] < p1[2]

\* (x, y, width, height); a width or height that wrapped is a negative representative
get_dimensions(sel, g) ==
  LET box == get(sel, g)
      p1 == position(g, box[1])
      p2 == position(g, box[2])
  IN  << p1[1], p1[2], p2[1] - p1[1], p2[2] - p1[2] >>

(***************************************************************************)
(* Dimension correction                                                    *)
(***************************************************************************)
\* correct_dimensions rounding the cell size up instead of down
correct_dimensions_ceil(rx, ry, w, h, vertical_cells, horizontal_cells) ==
  LET cell_width == (w + vertical_cells - 1) \div vertical_cells
      cell_height == (h + horizontal_cells - 1) \div horizontal_cells
      use_width == cell_width * vertical_cells
      use_height == cell_height * horizontal_cells
      use_x == rx + ((w - use_width) \div 2)
      use_y == ry + ((h - use_height) \div 2)
  IN  << use_x, use_y, use_width, use_height >>

\* correct_dimensions keeping the requested origin
correct_dimensions_uncentred(rx, ry, w, h, vertical_cells, horizontal_cells) ==
  LET cell_width == w \div vertical_cells
      cell_height == h \div horizontal_cells
      use_width == cell_width * vertical_cells
      use_height == cell_height * horizontal_cells
  IN  << rx, ry, use_width, use_height >>

correct_dimensions(rx, ry, w, h, vertical_cells, horizontal_cells) ==
  LET cell_width == w \div vertical_cells
      cell_height == h \div horizontal_cells
      use_width == cell_width * vertical_cells
      use_height == cell_height * horizontal_cells
      use_x == rx + ((w - use_width) \div 2)
      use_y == ry + ((h - use_height) \div 2)
  IN  << use_x, use_y, use_width, use_height >>

(***************************************************************************)
(* The session: GridReize                                                  *)
(***************************************************************************)
Button1 == "Button1"
Button2 == "Button2"
Button3 == "Button3"
XK_Escape == "XK_Escape"
XK_Other == "XK_a"

\* 1000 / 30 in motion(): integer division
DebounceInterval == 1000 \div 30

\* Event timestamps of the model: the multiples of the debounce interval and the
\* millisecond before each
Times ==
  { t \in { k * DebounceInterval - d : k \in 0 .. MaxTick, d \in { 0, 1 } } : t >= 0 }

\* Pointer coordinates of the session's events, relative to the overlay: across,
\* every pixel of it and one pixel beyond it on each side (left of it, and at its
\* width); down, every pixel of it
PointerXs == -1 .. width
PointerYs == 0 .. height - 1

NoButton == "none"
NoKey == "none"
Event(type, button, ex, ey, time, keysym) ==
  [ type |-> type, button |-> button, x |-> ex, y |-> ey, time |-> time, keysym |-> keysym ]

\* The mutable fields of the session as the handlers see them, with what the
\* handlers of one loop iteration did: move_and_resize invocations, the
\* geometries they applied, whether one of them panicked, and whether one of
\* them reached its display.sync (true).
Self ==
  [ selection        |-> selection,
    left_button_held |-> left_button_held,
    running          |-> running,
    last_motion      |-> last_motion,
    invoked          |-> 0,
    calls            |-> <<>>,
    panicked         |-> FALSE,
    synced           |-> FALSE ]

\* Bit arithmetic on integers that are not negative: a << n and a | b
Shl(a, n) == a * 2 ^ n

RECURSIVE BitOr(_, _)
BitOr(a, b) ==
  IF a = 0 THEN b
  ELSE IF b = 0 THEN a
  ELSE (IF a % 2 = 1 \/ b % 2 = 1 THEN 1 ELSE 0) + 2 * BitOr(a \div 2, b \div 2)

\* X.h
NorthWestGravity == 1

\* The data of the _NET_MOVERESIZE_WINDOW client message the Message method
\* sends for the rectangle d of get_dimensions (w and h, u32 values cast to
\* i64, are held as their u32 representatives)
message_data(d) ==
  << BitOr(BitOr(NorthWestGravity, Shl(15, 7)), Shl(2, 11)),
     x + d[1], y + d[2], d[3], d[4] >>

\* All three methods apply (self.x + x, self.y + y, w, h) to the target.
move_and_resize(s) ==
  IF overflow_checks /\ get_dimensions_overflows(s.selection, grid)
  THEN [s EXCEPT !.invoked = @ + 1, !.panicked = TRUE]
  ELSE LET d == get_dimensions(s.selection, grid)
       IN  [s EXCEPT !.invoked = @ + 1,
                     !.calls = Append(@, << x + d[1], y + d[2], d[3], d[4] >>),
                     !.synced = TRUE]

cancel(s) == [s EXCEPT !.running = FALSE]

\* finish with the test of the live flag inverted
finish_inverted(s) ==
  LET s1 == [s EXCEPT !.running = FALSE]
  IN  IF live THEN move_and_resize(s1) ELSE s1

finish(s) ==
  LET s1 == [s EXCEPT !.running = FALSE]
  IN  IF ~live THEN move_and_resize(s1) ELSE s1

key_press(s, event) ==
  IF event.keysym = XK_Escape THEN cancel(s) ELSE s

\* button_press moving the far corner instead of the anchor
button_press_p2(s, event) ==
  IF event.button = Button3
  THEN [s EXCEPT !.left_button_held = TRUE,
                 !.selection.p2_x = event.x,
                 !.selection.p2_y = event.y]
  ELSE s

button_press(s, event) ==
  IF event.button = Button3
  THEN [s EXCEPT !.left_button_held = TRUE,
                 !.selection.p1_x = event.x,
                 !.selection.p1_y = event.y]
  ELSE s

button_release(s, event) ==
  CASE event.button = Button1 -> finish(s)
    [] event.button = Button3 -> [s EXCEPT !.left_button_held = FALSE]
    [] OTHER -> s

\* motion discarding an event that is exactly the interval after the last one
motion_inclusive(s, event) ==
  LET elapsed == event.time - s.last_motion
  IN  IF overflow_checks /\ event.time < s.last_motion
      THEN [s EXCEPT !.panicked = TRUE]
      ELSE IF ~ULt(DebounceInterval, elapsed)
      THEN s
      ELSE LET s1 == [s EXCEPT !.last_motion = event.time,
                               !.selection.p2_x = event.x,
                               !.selection.p2_y = event.y]
           IN  IF s.left_button_held
               THEN [s1 EXCEPT !.selection.p1_x = event.x,
                               !.selection.p1_y = event.y]
               ELSE s1

\* event.time - self.last_motion is an unsigned subtraction: below zero it
\* panics with overflow checks and wraps (a negative representative) without
motion(s, event) ==
  LET elapsed == event.time - s.last_motion
  IN  IF overflow_checks /\ event.time < s.last_motion
      THEN [s EXCEPT !.panicked = TRUE]
      ELSE IF ULt(elapsed, DebounceInterval)
      THEN s
      ELSE LET s1 == [s EXCEPT !.last_motion = event.time,
                               !.selection.p2_x = event.x,
                               !.selection.p2_y = event.y]
           IN  IF s.left_button_held
               THEN [s1 EXCEPT !.selection.p1_x = event.x,
                               !.selection.p1_y = event.y]
               ELSE s1

\* match unsafe { event.type_ } in run()
dispatch(s, event) ==
  CASE event.type = "ButtonPress"   -> button_press(s, event)
    [] event.type = "ButtonRelease" -> button_release(s, event)
    [] event.type = "MotionNotify"  -> motion(s, event)
    [] event.type = "KeyPress"      -> key_press(s, event)
    [] OTHER -> s

\* redraw(): "ok", "err" (a cairo call failed and the error is returned) or
\* "panic" (get_dimensions overflowed).  fail: where cairo fails, "paint" being
\* the clear before get_dimensions is called, "later" a fill or stroke after.
DrawFailures == { "none", "paint", "later" }
redraw(sel, fail) ==
  IF fail = "paint" THEN "err"
  ELSE IF overflow_checks /\ get_dimensions_overflows(sel, grid) THEN "panic"
  ELSE IF fail = "later" THEN "err"
  ELSE "ok"

InitialBox == << <<0, 0>>, <<0, 0>> >>
NoFrame == << >>
NoCmd == << >>

\* The X resources GridReize::new leaves to run(): the overlay window created
\* and not mapped, the GC allocated, the connection open
Resources ==
  [ window |-> "created", gc |-> "allocated", display |-> "open", calls |-> << >> ]
NoEvent == [ type |-> "none", button |-> NoButton, keysym |-> NoKey ]

\* The command lines of the session specification: an overlay of SessionCells
\* cells across and one cell of one pixel down, with and without --live
SessionArgs ==
  { [ x |-> MaxOrigin, y |-> MaxOrigin + 1,
      width |-> SessionWidth, height |-> 1,
      vertical_cells |-> SessionCells, horizontal_cells |-> 1, live |-> l ] :
    l \in BOOLEAN }

\* The fields GridReize::new gives the session for command line a, around the
\* selection sel
Fields(a, sel) ==
  LET c == correct_dimensions(a.x, a.y, a.width, a.height,
                              a.vertical_cells, a.horizontal_cells)
  IN  /\ args = a
      /\ x = c[1]
      /\ y = c[2]
      /\ width = c[3]
      /\ height = c[4]
      /\ grid = Grid_new(c[3], c[4], a.vertical_cells, a.horizontal_cells)
      /\ selection = sel
      /\ left_button_held = FALSE
      /\ running = FALSE
      /\ last_box = InitialBox
      /\ live = a.live
      /\ last_motion = 0

\* GridReize::new, the pointer being at (mouse_x, mouse_y) in root coordinates
New(a, mouse_x, mouse_y) ==
  LET c == correct_dimensions(a.x, a.y, a.width, a.height,
                              a.vertical_cells, a.horizontal_cells)
  IN  Fields(a, Selection_new(mouse_x - c[1], mouse_y - c[2]))

Init ==
  /\ overflow_checks \in BOOLEAN
  /\ \E a \in SessionArgs :
       LET c == correct_dimensions(a.x, a.y, a.width, a.height,
                                   a.vertical_cells, a.horizontal_cells)
       IN  \E lx \in -1 .. c[3], ly \in 0 .. c[4] - 1 :
             New(a, c[1] + lx, c[2] + ly)
  /\ pc = "new"
  /\ frame = NoFrame
  /\ ev = NoEvent
  /\ iter = [ redraws |-> 0, resizes |-> 0 ]
  /\ n_resizes = 0
  /\ applied = << >>
  /\ ret = << >>
  /\ res = Resources
  /\ queue = << >>
  /\ cmd = NoCmd
  /\ failure = "none"

\* run() up to the loop: map_raised, the initial redraw, running = true
Run ==
  /\ pc = "new"
  /\ \E fail \in DrawFailures :
       LET drawn == redraw(selection, fail)
       IN  /\ pc' = CASE drawn = "ok" -> "loop"
                      [] drawn = "err" -> "error"
                      [] OTHER -> "panic"
           /\ running' = (drawn = "ok")
           /\ frame' = IF drawn = "ok" THEN get(selection, grid) ELSE frame
           /\ failure' = CASE drawn = "ok" -> failure
                           [] drawn = "err" -> "cairo"
                           [] OTHER -> "overflow"
  /\ res' = [res EXCEPT !.window = "mapped"]
  /\ UNCHANGED << args, overflow_checks, x, y, width, height, grid, selection,
                  left_button_held, last_box, live, last_motion, ev, iter,
                  n_resizes, applied, ret, queue, cmd >>

\* One iteration of the loop of run(): next_event, the dispatch, and the
\* recomputation of the box with the redraw and live resize it may cause.
\* next_event returns the head of the queue and removes it; the sync (true) at
\* the end of move_and_resize is XSync with discard set, which empties the queue.
Iteration(event) ==
  /\ pc = "loop"
  /\ running
  /\ \E s \in { dispatch(Self, event) } :
     \E box \in { get(s.selection, grid) } :
     \E fail \in (IF ~s.panicked /\ box # last_box THEN DrawFailures ELSE { "none" }) :
     \E drawn \in { IF ~s.panicked /\ box # last_box
                    THEN redraw(s.selection, fail)
                    ELSE "skipped" } :
     \E s2 \in { IF drawn = "ok" /\ live THEN move_and_resize(s) ELSE s } :
       /\ n_resizes + s2.invoked <= MaxResizes
       /\ selection' = s2.selection
       /\ left_button_held' = s2.left_button_held
       /\ running' = s2.running
       /\ last_motion' = s2.last_motion
       /\ last_box' = IF drawn = "ok" THEN box ELSE last_box
       /\ frame' = IF drawn = "ok" THEN box ELSE frame
       /\ pc' = IF s2.panicked \/ drawn = "panic" THEN "panic"
                ELSE IF drawn = "err" THEN "error"
                ELSE "loop"
       /\ iter' = [ redraws |-> IF drawn = "skipped" THEN 0 ELSE 1,
                    resizes |-> s2.invoked ]
       /\ n_resizes' = n_resizes + s2.invoked
       /\ applied' = IF s2.calls # << >> THEN s2.calls[Len(s2.calls)] ELSE applied
       /\ failure' = IF s2.panicked \/ drawn = "panic" THEN "overflow"
                      ELSE IF drawn = "err" THEN "cairo"
                      ELSE failure
       /\ queue' = IF s2.synced THEN << >>
                    ELSE IF queue = << >> THEN queue
                    ELSE Tail(queue)
  /\ ev' = [ type |-> event.type, button |-> event.button, keysym |-> event.keysym ]
  /\ UNCHANGED << args, overflow_checks, x, y, width, height, grid, live, ret, res, cmd >>

\* The events next_event delivers
ButtonPress ==
  /\ pc = "loop"
  /\ \E b \in { Button1, Button2, Button3 }, ex \in PointerXs, ey \in PointerYs :
       Iteration(Event("ButtonPress", b, ex, ey, 0, NoKey))

ButtonRelease ==
  /\ pc = "loop"
  /\ \E b \in { Button1, Button2, Button3 } :
       Iteration(Event("ButtonRelease", b, 0, 0, 0, NoKey))

MotionNotify ==
  /\ pc = "loop"
  /\ \E ex \in PointerXs, ey \in PointerYs, t \in Times :
       Iteration(Event("MotionNotify", NoButton, ex, ey, t, NoKey))

KeyPress ==
  /\ pc = "loop"
  /\ \E k \in { XK_Escape, XK_Other } :
       Iteration(Event("KeyPress", NoButton, 0, 0, 0, k))

\* an event of any other type
OtherEvent ==
  /\ pc = "loop"
  /\ Iteration(Event("Other", NoButton, 0, 0, 0, NoKey))

\* the calls run() makes after its loop, in order
Teardown == << "destroy", "XFreeGC", "set_input_focus", "close" >>

\* run() after the loop: destroy the overlay, free the GC, focus the target, close
Exit ==
  /\ pc = "loop"
  /\ ~running
  /\ pc' = "done"
  /\ res' = [ window  |-> "destroyed",
              gc      |-> "freed",
              display |-> "closed",
              calls   |-> res.calls \o Teardown ]
  /\ UNCHANGED << args, overflow_checks, x, y, width, height, grid, selection,
                  left_button_held, running, last_box, live, last_motion,
                  frame, ev, iter, n_resizes, applied, ret, queue, cmd, failure >>

Next ==
  \/ Run
  \/ ButtonPress
  \/ ButtonRelease
  \/ MotionNotify
  \/ KeyPress
  \/ OtherEvent
  \/ Exit

Spec == Init /\ [][Next]_vars

(***************************************************************************)
(* The session with its event queue: the X server delivers events to the   *)
(* overlay while the loop is busy (Deliver), they wait in the queue of the *)
(* connection, and each loop iteration takes the head of the queue with    *)
(* next_event (Dispatch).  In Spec above every event is taken as soon as   *)
(* it is delivered, so that the queue is always empty.                     *)
(***************************************************************************)
\* The events delivered: a Button1 release, an Escape press, and motions to
\* the first and the last pixel of the overlay
QueueEvents ==
  { Event("ButtonRelease", Button1, 0, 0, 0, NoKey),
    Event("KeyPress", NoButton, 0, 0, 0, XK_Escape) }
  \cup { Event("MotionNotify", NoButton, ex, 0, t, NoKey) :
            ex \in { 0, width - 1 }, t \in Times }

\* The server delivers an event to the mapped overlay
Deliver ==
  /\ pc = "loop"
  /\ Len(queue) < MaxQueue
  /\ \E e \in QueueEvents : queue' = Append(queue, e)
  /\ UNCHANGED << args, overflow_checks, x, y, width, height, grid, selection,
                  left_button_held, running, last_box, live, last_motion, pc,
                  frame, ev, iter, n_resizes, applied, ret, res, cmd, failure >>

\* next_event returns the head of the queue to the loop
Dispatch ==
  /\ pc = "loop"
  /\ queue # << >>
  /\ Iteration(Head(queue))

QueueNext ==
  \/ Run
  \/ Deliver
  \/ Dispatch
  \/ Exit

QueueSpec == Init /\ [][QueueNext]_vars

(***************************************************************************)
(* The construction of the session: GridReize::new step by step, from the  *)
(* command line as text (cmd) to the struct it returns or the error or     *)
(* panic it ends with.  A list argument is held as the sequence of its     *)
(* comma separated elements, each either a number or text that does not    *)
(* parse.  Until the struct is built its fields have no value (<< >>); x,  *)
(* y, width and height hold the locals of those names.                     *)
(***************************************************************************)
Tok(v) == [ ok |-> TRUE, val |-> v ]
BadTok == [ ok |-> FALSE, val |-> 0 ]

Active == ":ACTIVE:"
\* The window id that parses: str::parse::<u64> takes decimal digits only, so
\* neither the same id in hexadecimal nor a word parses
WindowId == "44040199"
MethodNames == { "configure", "direct", "message", "Direct", "resize" }

\* str::to_lowercase on the method names above
to_lowercase(name) == IF name = "Direct" THEN "direct" ELSE name

\* MoveResizeMethod::from_str: the method, or "" for bail! ("Invalid method")
MoveResizeMethod_from_str(name) ==
  IF to_lowercase(name) \in { "direct", "configure", "message" }
  THEN to_lowercase(name)
  ELSE ""

\* RGB::from_str: "ok", "err" (an element does not parse) or "panic" (fewer
\* than three elements: list[2] is out of bounds)
RGB_from_str(list) ==
  IF \E i \in 1 .. Len(list) : ~list[i].ok THEN "err"
  ELSE IF Len(list) < 3 THEN "panic"
  ELSE "ok"

\* The command lines and X servers of the construction specification
CommandLines ==
  { [ window     |-> w,
      dimensions |-> d,
      cells      |-> c,
      color      |-> k,
      live       |-> l,
      method     |-> m,
      visual     |-> vi,
      cairo      |-> ca,
      active     |-> ac,
      pointer    |-> po ] :
    w \in { Active, WindowId, "0x2a00007", "window" },
    d \in { << Tok(MaxOrigin), Tok(MaxOrigin + 1), Tok(SessionWidth), Tok(1) >>,
            << Tok(MaxOrigin), Tok(MaxOrigin + 1), Tok(SessionWidth) >>,
            << Tok(MaxOrigin), Tok(MaxOrigin + 1), Tok(SessionWidth), Tok(1), Tok(1) >>,
            << Tok(MaxOrigin), BadTok, Tok(SessionWidth), Tok(1) >> },
    c \in { << Tok(SessionCells), Tok(1) >>,
            << Tok(SessionCells) >>,
            << Tok(SessionCells), Tok(1), Tok(1) >>,
            << BadTok, Tok(1) >>,
            << Tok(0), Tok(1) >> },
    k \in { << Tok(1), Tok(0), Tok(1) >>, << Tok(1), BadTok, Tok(1) >>, << Tok(1), Tok(0) >> },
    l \in BOOLEAN,
    m \in MethodNames,
    vi \in BOOLEAN,
    ca \in BOOLEAN,
    ac \in BOOLEAN,
    po \in BOOLEAN }

NewInit ==
  /\ cmd \in CommandLines
  /\ overflow_checks \in BOOLEAN
  /\ pc = "dimensions"
  /\ failure = "none"
  /\ res = [ window |-> "none", gc |-> "none", display |-> "open", calls |-> << >> ]
  /\ args = << >>
  /\ x = 0 /\ y = 0 /\ width = 0 /\ height = 0
  /\ grid = << >>
  /\ selection = << >>
  /\ left_button_held = FALSE
  /\ running = FALSE
  /\ last_box = << >>
  /\ live = FALSE
  /\ last_motion = 0
  /\ frame = NoFrame
  /\ ev = NoEvent
  /\ iter = [ redraws |-> 0, resizes |-> 0 ]
  /\ n_resizes = 0
  /\ applied = << >>
  /\ ret = << >>
  /\ queue = << >>

\* what a step of GridReize::new leaves alone besides pc, failure and what it names
NewUnchanged ==
  UNCHANGED << args, overflow_checks, grid, selection, left_button_held, running,
               last_box, live, last_motion, frame, ev, iter, n_resizes, applied,
               ret, queue, cmd >>

\* let mut dim_iter ...; the count; let x, y, width, height
ParseDimensions ==
  /\ pc = "dimensions"
  /\ \E d \in { cmd.dimensions } :
       IF \E i \in 1 .. Len(d) : ~d[i].ok
       THEN /\ pc' = "panic"
            /\ failure' = "unwrap: the dimensions do not parse"
            /\ UNCHANGED << x, y, width, height >>
       ELSE IF Len(d) # 4
       THEN /\ pc' = "failed"
            /\ failure' = "Invalid dimensions"
            /\ UNCHANGED << x, y, width, height >>
       ELSE /\ pc' = "cells"
            /\ failure' = failure
            /\ x' = d[1].val /\ y' = d[2].val /\ width' = d[3].val /\ height' = d[4].val
  /\ UNCHANGED res
  /\ NewUnchanged

\* let mut cells_iter ...; the count
ParseCells ==
  /\ pc = "cells"
  /\ \E c \in { cmd.cells } :
       IF \E i \in 1 .. Len(c) : ~c[i].ok
       THEN /\ pc' = "panic"
            /\ failure' = "unwrap: the grid size does not parse"
       ELSE IF Len(c) # 2
       THEN /\ pc' = "failed"
            /\ failure' = "Invalid grid size"
       ELSE /\ pc' = "correct"
            /\ failure' = failure
  /\ UNCHANGED << x, y, width, height, res >>
  /\ NewUnchanged

\* let (x, y, width, height) = correct_dimensions (...)
Correct ==
  /\ pc = "correct"
  /\ IF cmd.cells[1].val = 0 \/ cmd.cells[2].val = 0
     THEN /\ pc' = "panic"
          /\ failure' = "attempt to divide by zero"
          /\ UNCHANGED << x, y, width, height >>
     ELSE \E c \in { correct_dimensions(x, y, width, height,
                                         cmd.cells[1].val, cmd.cells[2].val) } :
            /\ pc' = "visual"
            /\ failure' = failure
            /\ x' = c[1] /\ y' = c[2] /\ width' = c[3] /\ height' = c[4]
  /\ UNCHANGED res
  /\ NewUnchanged

\* display.match_visual_info (32, TrueColor)
MatchVisual ==
  /\ pc = "visual"
  /\ IF cmd.visual
     THEN pc' = "window" /\ failure' = failure
     ELSE pc' = "failed" /\ failure' = "Failed to get RGBA visual"
  /\ UNCHANGED << x, y, width, height, res >>
  /\ NewUnchanged

\* Window::builder (...).build (), the class hint and window type, XCreateGC
CreateWindow ==
  /\ pc = "window"
  /\ pc' = "surface"
  /\ res' = [res EXCEPT !.window = "created", !.gc = "allocated"]
  /\ UNCHANGED << x, y, width, height, failure >>
  /\ NewUnchanged

\* the cairo surface and context
CreateSurface ==
  /\ pc = "surface"
  /\ IF cmd.cairo
     THEN pc' = "target" /\ failure' = failure
     ELSE pc' = "failed" /\ failure' = "cairo"
  /\ UNCHANGED << x, y, width, height, res >>
  /\ NewUnchanged

\* let target = ...: get_active_window for :ACTIVE:, else the id parsed
Target ==
  /\ pc = "target"
  /\ IF cmd.window = Active
     THEN IF cmd.active
          THEN pc' = "pointer" /\ failure' = failure
          ELSE pc' = "failed" /\ failure' = "No active window"
     ELSE IF cmd.window = WindowId
          THEN pc' = "pointer" /\ failure' = failure
          ELSE pc' = "failed" /\ failure' = "ParseIntError: the window id does not parse"
  /\ UNCHANGED << x, y, width, height, res >>
  /\ NewUnchanged

\* display.query_pointer_position ()
QueryPointer ==
  /\ pc = "pointer"
  /\ IF cmd.pointer
     THEN pc' = "struct" /\ failure' = failure
     ELSE pc' = "failed" /\ failure' = "Failed to get pointer position"
  /\ UNCHANGED << x, y, width, height, res >>
  /\ NewUnchanged

\* Ok (Self { ... }): the fields in the order written, color and method last;
\* the pointer is at the overlay's origin
Build ==
  /\ pc = "struct"
  /\ \E color \in { RGB_from_str(cmd.color) }, method \in { MoveResizeMethod_from_str(cmd.method) } :
       /\ pc' = CASE color = "panic" -> "panic"
                  [] color = "err" \/ method = "" -> "failed"
                  [] OTHER -> "new"
       /\ failure' = CASE color = "panic" -> "index out of bounds: the color has less than 3 components"
                       [] color = "err" -> "ParseFloatError: the color does not parse"
                       [] method = "" -> "Invalid method"
                       [] OTHER -> failure
       /\ IF color = "ok" /\ method # ""
          THEN /\ args' = [ x |-> cmd.dimensions[1].val, y |-> cmd.dimensions[2].val,
                            width |-> cmd.dimensions[3].val, height |-> cmd.dimensions[4].val,
                            vertical_cells |-> cmd.cells[1].val,
                            horizontal_cells |-> cmd.cells[2].val,
                            live |-> cmd.live ]
               /\ grid' = Grid_new(width, height, cmd.cells[1].val, cmd.cells[2].val)
               /\ selection' = Selection_new(0, 0)
               /\ last_box' = InitialBox
               /\ live' = cmd.live
          ELSE UNCHANGED << args, grid, selection, last_box, live >>
  /\ UNCHANGED << overflow_checks, x, y, width, height, left_button_held, running,
                  last_motion, frame, ev, iter, n_resizes, applied, ret, res, queue, cmd >>

NewNext ==
  \/ ParseDimensions
  \/ ParseCells
  \/ Correct
  \/ MatchVisual
  \/ CreateWindow
  \/ CreateSurface
  \/ Target
  \/ QueryPointer
  \/ Build

NewSpec == NewInit /\ [][NewNext]_vars

(***************************************************************************)
(* The geometry on its own: the inputs are drawn by GeomInit (a command     *)
(* line, corrected and made a Grid as GridReize::new does, and a Selection  *)
(* of two points up to one pixel outside the overlay) and Evaluate applies  *)
(* the functions to them.                                                   *)
(***************************************************************************)
GeomArgs ==
  { [ x |-> o[1], y |-> o[2], width |-> w, height |-> h,
      vertical_cells |-> vc, horizontal_cells |-> hc, live |-> FALSE ] :
    o \in { << -MaxOrigin, MaxOrigin >>, << MaxOrigin, 0 >> },
    w \in 0 .. MaxWidth, h \in 1 .. MaxHeight,
    vc \in 1 .. MaxVCells, hc \in 1 .. MaxHCells }

GeomInit ==
  /\ overflow_checks \in BOOLEAN
  /\ \E a \in GeomArgs :
       LET c == correct_dimensions(a.x, a.y, a.width, a.height,
                                   a.vertical_cells, a.horizontal_cells)
       IN  \E ax \in -1 .. c[3], bx \in -1 .. c[3], ay \in -1 .. c[4], by \in -1 .. c[4] :
             Fields(a, [ p1_x |-> ax, p1_y |-> ay, p2_x |-> bx, p2_y |-> by ])
  /\ pc = "geom"
  /\ frame = NoFrame
  /\ ev = NoEvent
  /\ iter = [ redraws |-> 0, resizes |-> 0 ]
  /\ n_resizes = 0
  /\ applied = << >>
  /\ ret = << >>
  /\ res = Resources
  /\ queue = << >>
  /\ cmd = NoCmd
  /\ failure = "none"

Evaluate ==
  /\ pc = "geom"
  /\ pc' = "evaluated"
  /\ ret' = [ corrected |-> correct_dimensions(args.x, args.y, args.width, args.height,
                                               args.vertical_cells, args.horizontal_cells),
              lower     |-> lower_bound(grid, selection.p1_x, selection.p1_y),
              upper     |-> upper_bound(grid, selection.p1_x, selection.p1_y),
              box       |-> get(selection, grid),
              panicked  |-> overflow_checks /\ get_dimensions_overflows(selection, grid),
              dims      |-> IF overflow_checks /\ get_dimensions_overflows(selection, grid)
                            THEN << >>
                            ELSE get_dimensions(selection, grid),
              message   |-> IF overflow_checks /\ get_dimensions_overflows(selection, grid)
                            THEN << >>
                            ELSE message_data(get_dimensions(selection, grid)) ]
  /\ UNCHANGED << args, overflow_checks, x, y, width, height, grid, selection,
                  left_button_held, running, last_box, live, last_motion,
                  frame, ev, iter, n_resizes, applied, res, queue, cmd, failure >>

GeomNext == Evaluate

GeomSpec == GeomInit /\ [][GeomNext]_vars

(***************************************************************************)
(* Properties of the geometry (GeomSpec)                                   *)
(***************************************************************************)
Evaluated == pc = "evaluated"

\* the point (px, py) is a pixel of the overlay
Inside(px, py) == 0 <= px /\ px < width /\ 0 <= py /\ py < height

MinX == Min(selection.p1_x, selection.p2_x)
MaxX == Max(selection.p1_x, selection.p2_x)
MinY == Min(selection.p1_y, selection.p2_y)
MaxY == Max(selection.p1_y, selection.p2_y)

\* The cell-aligned rectangle covering every cell the normalized rectangle touches
CoveringRect ==
  LET cw == grid.cell_width
      ch == grid.cell_height
      ox == cw * (MinX \div cw)
      oy == ch * (MinY \div ch)
      fx == cw * ((MaxX \div cw) + 1)
      fy == ch * ((MaxY \div ch) + 1)
  IN  << ox, oy, fx - ox, fy - oy >>

\* C5: for two selection points inside the overlay get_dimensions is the
\* cell-aligned rectangle from cellSize * floor(min / cellSize) to
\* cellSize * (floor(max / cellSize) + 1) on each axis, computed without overflow;
\* and on the overlay 800x600 with grid 4,3 the points (50,50), (450,250) give
\* x = 0, y = 0, width = 600, height = 400.
C5_PixelRectCoversCells ==
  /\ (Evaluated /\ Inside(selection.p1_x, selection.p1_y)
                /\ Inside(selection.p2_x, selection.p2_y))
       => (~ret.panicked /\ ret.dims = CoveringRect)
  /\ LET c == correct_dimensions(0, 0, 800, 600, 4, 3)
     IN  /\ c = << 0, 0, 800, 600 >>
         /\ get_dimensions([ p1_x |-> 50, p1_y |-> 50, p2_x |-> 450, p2_y |-> 250 ],
                           Grid_new(c[3], c[4], 4, 3)) = << 0, 0, 600, 400 >>

\* C5 witness: two points inside cells of more than one pixel, neither on the
\* first pixel of its cell, in different cells, and their rectangle evaluated
C5_Witness ==
  /\ Evaluated
  /\ Inside(selection.p1_x, selection.p1_y)
  /\ Inside(selection.p2_x, selection.p2_y)
  /\ grid.cell_width >= 2
  /\ selection.p1_x % grid.cell_width # 0
  /\ selection.p2_x % grid.cell_width # 0
  /\ selection.p2_x \div grid.cell_width > selection.p1_x \div grid.cell_width
  /\ ret.dims[3] = 2 * grid.cell_width

\* C6: for a point p inside the overlay, position(lower_bound(p)) <= p and
\* position(upper_bound(p)) >= p on both axes.
C6_BoundsBracketPoint ==
  (Evaluated /\ Inside(selection.p1_x, selection.p1_y))
    => LET lo == position(grid, ret.lower)
           hi == position(grid, ret.upper)
       IN  /\ lo[1] <= selection.p1_x /\ lo[2] <= selection.p1_y
           /\ hi[1] >= selection.p1_x /\ hi[2] >= selection.p1_y

\* C6 witness: a point strictly inside a cell that is not the first of its row
C6_Witness ==
  /\ Evaluated
  /\ Inside(selection.p1_x, selection.p1_y)
  /\ ret.lower[1] >= 1
  /\ position(grid, ret.lower)[1] < selection.p1_x
  /\ position(grid, ret.upper)[1] > selection.p1_x

SwappedSelection ==
  [ p1_x |-> selection.p2_x, p1_y |-> selection.p2_y,
    p2_x |-> selection.p1_x, p2_y |-> selection.p1_y ]
SortedSelection == [ p1_x |-> MinX, p1_y |-> MinY, p2_x |-> MaxX, p2_y |-> MaxY ]

\* C7: the box of a selection is the box of the selection with its two points
\* exchanged, and the box of the selection of their componentwise min and max;
\* (80,5),(5,80) has the box of (5,5),(80,80).
C7_BoxOrderIndependent ==
  /\ Evaluated => /\ ret.box = get(SwappedSelection, grid)
                  /\ ret.box = get(SortedSelection, grid)
  /\ LET g == Grid_new(100, 100, 2, 2)
     IN  get([ p1_x |-> 80, p1_y |-> 5, p2_x |-> 5, p2_y |-> 80 ], g)
           = get([ p1_x |-> 5, p1_y |-> 5, p2_x |-> 80, p2_y |-> 80 ], g)

\* C7 witness: a selection whose points are in no order (p1 right of and above
\* p2), in different cells on both axes
C7_Witness ==
  /\ Evaluated
  /\ selection.p1_x > selection.p2_x
  /\ selection.p1_y < selection.p2_y
  /\ Inside(selection.p1_x, selection.p1_y)
  /\ Inside(selection.p2_x, selection.p2_y)
  /\ ret.box[2][1] - ret.box[1][1] >= 2
  /\ ret.box[2][2] - ret.box[1][2] >= 2

\* C8: the width correct_dimensions returns is a multiple of vertical_cells and at
\* most the requested width, the height a multiple of horizontal_cells and at
\* most the requested height.
C8_UsableDivisible ==
  Evaluated =>
    /\ ret.corrected[3] % args.vertical_cells = 0
    /\ ret.corrected[3] <= args.width
    /\ ret.corrected[3] >= 0
    /\ ret.corrected[4] % args.horizontal_cells = 0
    /\ ret.corrected[4] <= args.height
    /\ ret.corrected[4] >= 0

\* C8 witness: a width and a height that their cell counts do not divide
C8_Witness ==
  /\ Evaluated
  /\ args.width % args.vertical_cells # 0
  /\ args.height % args.horizontal_cells # 0
  /\ ret.corrected[3] > 0
  /\ ret.corrected[3] < args.width
  /\ ret.corrected[4] < args.height

\* the smallest i of 0 .. cells with i * size > c, and cells when there is none
FirstPast(c, size, cells) ==
  IF \E i \in 0 .. cells : i * size > c
  THEN CHOOSE i \in 0 .. cells :
         /\ i * size > c
         /\ \A j \in 0 .. i - 1 : ~(j * size > c)
  ELSE cells

\* C10: upper_bound returns on each axis the smallest index i with
\* i * cellSize > coordinate, and the cell count when the coordinate is at or
\* beyond cellSize * cellCount (stated here for grids whose cells are at least
\* one pixel wide and high).
C10_UpperBoundCapped ==
  (Evaluated /\ grid.cell_width >= 1 /\ grid.cell_height >= 1) =>
    ret.upper = << FirstPast(selection.p1_x, grid.cell_width, grid.vertical_cells),
                   FirstPast(selection.p1_y, grid.cell_height, grid.horizontal_cells) >>

(***************************************************************************)
(* Properties of the session (Spec)                                        *)
(***************************************************************************)
PrimaryRelease == ev.type = "ButtonRelease" /\ ev.button = Button1
EscapePress == ev.type = "KeyPress" /\ ev.keysym = XK_Escape

\* the overlay origin plus get_dimensions of the selection
TargetGeometry ==
  LET d == get_dimensions(selection, grid)
  IN  << x + d[1], y + d[2], d[3], d[4] >>

\* C1: without live mode move_and_resize is not invoked before a Button1
\* release is dispatched; the iteration that dispatches the release invokes it
\* exactly once and ends the loop, and unless that call panics on an overflowing
\* width or height it applies the overlay origin plus get_dimensions of the
\* selection as it stands then.
C1_FinishResizesOnce ==
  ~live =>
    /\ n_resizes = (IF PrimaryRelease THEN 1 ELSE 0)
    /\ PrimaryRelease =>
         /\ iter.resizes = 1
         /\ ~running
         /\ pc # "panic" => applied = TargetGeometry
    /\ ~PrimaryRelease => (iter.resizes = 0 /\ applied = << >>)

\* C1 witness: a session without live mode that dragged across cells, was ended
\* by the Button1 release and has left run(), one geometry applied
C1_Witness ==
  /\ ~live
  /\ pc = "done"
  /\ PrimaryRelease
  /\ n_resizes = 1
  /\ selection.p1_x # selection.p2_x
  /\ applied = TargetGeometry
  /\ applied[1] > x
  /\ applied[3] > 0

\* both points of the selection are pixels of the overlay
SelectionInside ==
  /\ Inside(selection.p1_x, selection.p1_y)
  /\ Inside(selection.p2_x, selection.p2_y)

\* C2: the iteration that dispatches an Escape key press invokes
\* move_and_resize not once, and no iteration follows it (stated here for a
\* selection inside the overlay).
C2_CancelNeverResizes ==
  (EscapePress /\ SelectionInside) => (iter.resizes = 0 /\ ~running)

\* C3: in live mode an iteration of the loop that completes invokes
\* move_and_resize once when the box of the selection after the dispatch differs
\* from the box of the frame on screen before it (the initial draw of run() for
\* the first event), and not at all otherwise (stated here for a selection
\* inside the overlay).
C3_LiveResizePerBoxChange ==
  [][ (live /\ pc = "loop" /\ running /\ pc' = "loop" /\ SelectionInside')
        => iter'.resizes = (IF get(selection', grid) # frame THEN 1 ELSE 0) ]_vars

MotionEvents ==
  { Event("MotionNotify", NoButton, ex, ey, t, NoKey) :
      ex \in PointerXs, ey \in PointerYs, t \in Times }

\* the step is an iteration that handled motion event e without panicking
MotionHandled(e) ==
  /\ pc = "loop"
  /\ running
  /\ ev'.type = "MotionNotify"
  /\ pc' # "panic"
  /\ \E s \in { motion(Self, e) } :
       /\ ~s.panicked
       /\ selection' = s.selection
       /\ last_motion' = s.last_motion
       /\ left_button_held' = s.left_button_held

\* C4: a motion event less than 1000 / 30 ms after the last accepted motion
\* leaves p2 (and the time of the last accepted motion) unchanged; one at or
\* beyond the interval sets p2 to its coordinates and becomes the last accepted
\* motion.
C4_DebounceMotion ==
  [][ \A e \in MotionEvents :
        MotionHandled(e) =>
          /\ (0 <= e.time - last_motion /\ e.time - last_motion < DebounceInterval)
               => /\ selection'.p2_x = selection.p2_x
                  /\ selection'.p2_y = selection.p2_y
                  /\ last_motion' = last_motion
          /\ (e.time - last_motion >= DebounceInterval)
               => /\ selection'.p2_x = e.x
                  /\ selection'.p2_y = e.y
                  /\ last_motion' = e.time ]_vars

\* C4 witness: a motion exactly the interval after the last accepted one (the
\* start, 0) has been accepted and has moved p2 away from p1
C4_Witness ==
  /\ pc = "loop"
  /\ ev.type = "MotionNotify"
  /\ last_motion = DebounceInterval
  /\ selection.p2_x # selection.p1_x

\* C9: after a press or motion event, whose coordinates may lie outside the
\* overlay, the box of the selection has lower index <= upper index <= cell
\* count on each axis, and get_dimensions is a rectangle within the overlay
\* whose width and height did not wrap.
C9_BoxWithinGrid ==
  (pc \in { "loop", "done" } /\ ev.type \in { "ButtonPress", "MotionNotify" }) =>
    LET box == get(selection, grid)
        d == get_dimensions(selection, grid)
    IN  /\ box[1][1] <= box[2][1] /\ box[2][1] <= grid.vertical_cells
        /\ box[1][2] <= box[2][2] /\ box[2][2] <= grid.horizontal_cells
        /\ ~get_dimensions_overflows(selection, grid)
        /\ d[3] >= 0 /\ d[1] + d[3] <= width
        /\ d[4] >= 0 /\ d[2] + d[4] <= height

\* C11: for a negative coordinate lower_bound and upper_bound both return
\* index 0 on that axis (stated here for grids whose cells are at least one
\* pixel wide and high).
C11_NegativeClampsToZero ==
  (Evaluated /\ grid.cell_width >= 1 /\ grid.cell_height >= 1) =>
    /\ selection.p1_x < 0 => (ret.lower[1] = 0 /\ ret.upper[1] = 0)
    /\ selection.p1_y < 0 => (ret.lower[2] = 0 /\ ret.upper[2] = 0)

\* C12 as stated: for a zero-size selection (p1 = p2) at a point inside the
\* overlay the box has its lower index equal to its upper index; and so for
\* p1 = p2 = (10, 10) on a grid whose cells are 50 wide and 50 high.
C12_ZeroSizeLowerEqualsUpper ==
  /\ (Evaluated /\ selection.p1_x = selection.p2_x /\ selection.p1_y = selection.p2_y
                /\ Inside(selection.p1_x, selection.p1_y))
       => ret.box[1] = ret.box[2]
  /\ Evaluated =>
       LET box == get(Selection_new(10, 10), Grid_new(100, 100, 2, 2))
       IN  box[1] = box[2]

\* C12 amended: for a zero-size selection (p1 = p2) at a point inside the
\* overlay the upper index is the lower index plus one on each axis, the box
\* being the one cell that holds the point and get_dimensions that cell's
\* rectangle; for p1 = p2 = (10, 10) on a grid whose cells are 50 wide and 50
\* high the box is ((0, 0), (1, 1)).
C12_ZeroSizeSelectsOneCell ==
  /\ (Evaluated /\ selection.p1_x = selection.p2_x /\ selection.p1_y = selection.p2_y
                /\ Inside(selection.p1_x, selection.p1_y))
       => /\ ret.box[1] = << selection.p1_x \div grid.cell_width,
                             selection.p1_y \div grid.cell_height >>
          /\ ret.box[2] = << ret.box[1][1] + 1, ret.box[1][2] + 1 >>
          /\ ~ret.panicked
          /\ ret.dims = << ret.box[1][1] * grid.cell_width,
                           ret.box[1][2] * grid.cell_height,
                           grid.cell_width, grid.cell_height >>
  /\ Evaluated =>
       get(Selection_new(10, 10), Grid_new(100, 100, 2, 2)) = << <<0, 0>>, <<1, 1>> >>

\* C12 witness: a zero-size selection on a cell boundary that is not the
\* origin, in a grid of several cells of more than one pixel
C12_Witness ==
  /\ Evaluated
  /\ selection.p1_x = selection.p2_x
  /\ selection.p1_y = selection.p2_y
  /\ Inside(selection.p1_x, selection.p1_y)
  /\ grid.cell_width >= 2
  /\ grid.vertical_cells >= 2
  /\ selection.p1_x = grid.cell_width
  /\ ret.box[1][1] = 1

\* C17: correct_dimensions centres the truncated rectangle in the requested
\* one: the corrected x is x + floor((width - usable width) / 2) and the
\* corrected y likewise, so the corrected rectangle lies within the requested
\* one on both axes, and the Grid built from the corrected size has
\* cell_width * vertical_cells equal to the overlay width (and cell_height *
\* horizontal_cells equal to the overlay height) with no remainder.
C17_CorrectedRectCentred ==
  Evaluated =>
    LET c == ret.corrected
    IN  /\ c[1] = args.x + ((args.width - c[3]) \div 2)
        /\ c[2] = args.y + ((args.height - c[4]) \div 2)
        /\ c[1] >= args.x /\ c[1] + c[3] <= args.x + args.width
        /\ c[2] >= args.y /\ c[2] + c[4] <= args.y + args.height
        /\ x = c[1] /\ y = c[2] /\ width = c[3] /\ height = c[4]
        /\ grid.cell_width * grid.vertical_cells = width
        /\ grid.cell_height * grid.horizontal_cells = height
        /\ width % grid.vertical_cells = 0
        /\ height % grid.horizontal_cells = 0

\* C17 witness: a width that leaves two pixels over, so that the corrected
\* rectangle starts one pixel right of the requested one and ends one pixel
\* left of its end
C17_Witness ==
  /\ Evaluated
  /\ args.width - ret.corrected[3] = 2
  /\ ret.corrected[1] = args.x + 1
  /\ ret.corrected[3] > 0
  /\ grid.cell_width >= 1

(***************************************************************************)
(* Properties of the session (Spec), continued                             *)
(***************************************************************************)
\* C14: a motion event discarded by the debounce (less than 1000 / 30 ms after
\* the last accepted motion) changes neither p1 nor p2 nor the resetting flag
\* nor the time of the last accepted motion, and its loop iteration neither
\* redraws nor calls move_and_resize, the first iteration after run() starts
\* included (stated here for selections whose points lie inside the overlay).
C14_DiscardedMotionNoEffect ==
  [][ \A e \in MotionEvents :
        (/\ MotionHandled(e)
         /\ SelectionInside
         /\ 0 <= e.time - last_motion
         /\ e.time - last_motion < DebounceInterval)
          => /\ selection' = selection
             /\ left_button_held' = left_button_held
             /\ last_motion' = last_motion
             /\ iter'.redraws = 0
             /\ iter'.resizes = 0 ]_vars

\* the button press events the session can receive
PressEvents ==
  { Event("ButtonPress", b, ex, ey, 0, NoKey) :
      b \in { Button1, Button2, Button3 }, ex \in PointerXs, ey \in PointerYs }

\* this step is a loop iteration that dispatched the button press e
PressHandled(e) ==
  /\ pc = "loop"
  /\ running
  /\ ev'.type = "ButtonPress"
  /\ ev'.button = e.button
  /\ \E s \in { button_press(Self, e) } :
       /\ selection' = s.selection
       /\ last_motion' = s.last_motion
       /\ left_button_held' = s.left_button_held

\* this step is a loop iteration that dispatched a release of Button3
SecondaryReleaseHandled ==
  /\ pc = "loop"
  /\ running
  /\ ev'.type = "ButtonRelease"
  /\ ev'.button = Button3

\* C15: a press of Button3 sets the resetting flag and sets p1 to the press
\* position, whatever the time since the last motion, and leaves p2; a release
\* of Button3 clears the flag and changes neither point; an accepted motion
\* sets p2 to its position, and p1 to the same position exactly when the flag
\* is set; and p1 changes in no other step.
C15_SecondaryButton ==
  [][ /\ \A e \in { p \in PressEvents : p.button = ev'.button } :
           (PressHandled(e) /\ e.button = Button3)
             => /\ left_button_held'
                /\ selection'.p1_x = e.x /\ selection'.p1_y = e.y
                /\ selection'.p2_x = selection.p2_x /\ selection'.p2_y = selection.p2_y
                /\ last_motion' = last_motion
      /\ SecondaryReleaseHandled
           => /\ ~left_button_held'
              /\ selection' = selection
      /\ \A e \in { m \in MotionEvents : ev'.type = "MotionNotify" } :
           (MotionHandled(e) /\ e.time - last_motion >= DebounceInterval)
             => /\ selection'.p2_x = e.x /\ selection'.p2_y = e.y
                /\ left_button_held
                     => (selection'.p1_x = e.x /\ selection'.p1_y = e.y)
                /\ ~left_button_held
                     => (selection'.p1_x = selection.p1_x /\ selection'.p1_y = selection.p1_y)
                /\ left_button_held' = left_button_held
      /\ (selection'.p1_x # selection.p1_x \/ selection'.p1_y # selection.p1_y)
           => \/ ev'.type = "ButtonPress" /\ ev'.button = Button3
              \/ ev'.type = "MotionNotify" /\ left_button_held
                   /\ last_motion' # last_motion ]_vars

\* C15 witness: with Button3 held an accepted motion has moved both points
\* away from where the press had put p1
C15_Witness ==
  /\ pc = "loop"
  /\ ev.type = "MotionNotify"
  /\ left_button_held
  /\ last_motion = DebounceInterval
  /\ selection.p1_x = selection.p2_x
  /\ selection.p1_x = width - 1
  /\ frame # NoFrame

\* C16: running is false until run() and true while the loop runs; once a
\* Button1 release or an Escape press has set it to false it stays false and
\* no further event is dispatched; and when run() has been left after that,
\* the overlay has been destroyed and, after that, the input focus returned to
\* the target (stated here for selections inside the overlay).
C16_Lifecycle ==
  /\ pc = "new" => ~running
  /\ (pc = "loop" /\ ~running) => (PrimaryRelease \/ EscapePress)
  /\ (SelectionInside /\ (PrimaryRelease \/ EscapePress)) =>
       /\ ~running
       /\ pc # "loop" =>
            /\ res.window = "destroyed"
            /\ res.calls = Teardown

\* C18: whenever run() has returned, be it normally or with the error of a
\* failed redraw (the initial one or one after a change of the box), the
\* overlay window has been destroyed, the GC freed and the display connection
\* closed.
C18_ReleasedOnEveryExit ==
  pc \in { "done", "error" } =>
    /\ res.window = "destroyed"
    /\ res.gc = "freed"
    /\ res.display = "closed"

(***************************************************************************)
(* Properties of the geometry (GeomSpec), continued                        *)
(***************************************************************************)
\* the bits lo .. hi of a, bit 0 being the least significant
BitField(a, lo, hi) == (a \div 2 ^ lo) % 2 ^ (hi - lo + 1)

\* C19: the first data word of the _NET_MOVERESIZE_WINDOW message of the
\* Message method, bit 0 being the least significant, has NorthWestGravity in
\* bits 0 to 7, bits 8 to 11 all set, and 0010 in bits 12 to 15.
C19_MessageFlagsWord ==
  (Evaluated /\ ~ret.panicked) =>
    /\ BitField(ret.message[1], 0, 7) = NorthWestGravity
    /\ BitField(ret.message[1], 8, 11) = 15
    /\ BitField(ret.message[1], 12, 15) = 2

(***************************************************************************)
(* Properties of the session with its event queue (QueueSpec)              *)
(***************************************************************************)
IsTerminator(e) ==
  \/ e.type = "ButtonRelease" /\ e.button = Button1
  \/ e.type = "KeyPress" /\ e.keysym = XK_Escape

\* C20: a loop iteration after which the session still runs removes from the
\* queue only the event it dispatches: every Button1 release and every Escape
\* press waiting behind that event is still waiting, in its place, after the
\* iteration, a live resize included (stated here for selections inside the
\* overlay and iterations after the first, whose redraw and resize do follow
\* from a change of the box).
C20_ResizeLosesNoInput ==
  [][ (/\ pc = "loop" /\ running
       /\ last_box = frame
       /\ SelectionInside
       /\ Len(queue') < Len(queue)
       /\ pc' = "loop" /\ running')
        => \A i \in 2 .. Len(queue) :
             IsTerminator(queue[i])
               => (Len(queue') >= i - 1 /\ queue'[i - 1] = queue[i]) ]_vars

(***************************************************************************)
(* Properties of the construction (NewSpec)                                *)
(***************************************************************************)
\* the messages of the configuration errors: a malformed dimension or cell
\* list, an unknown method name, no active window for :ACTIVE:
ConfigurationErrors ==
  { "unwrap: the dimensions do not parse",
    "Invalid dimensions",
    "unwrap: the grid size does not parse",
    "Invalid grid size",
    "attempt to divide by zero",
    "Invalid method",
    "No active window" }

\* C13: when GridReize::new ends with a configuration error, the overlay
\* window has not been created.
C13_ConfigErrorBeforeWindow ==
  failure \in ConfigurationErrors => res.window = "none"

(***************************************************************************)
(* Properties of the session (Spec): the time of the last accepted motion  *)
(***************************************************************************)
\* C21: last_motion is 0 before run(), changes only in an iteration that
\* dispatches a motion event, and never decreases; and for every motion event
\* dispatched, one with a time below the last accepted one included, the
\* unsigned difference event.time - last_motion does not go below zero: it
\* neither wraps (the event then being handled with a time below last_motion)
\* nor panics (stated here for selections inside the overlay).
C21_LastMotionMonotonic ==
  [][ /\ pc = "new" => last_motion = 0
      /\ last_motion' # last_motion => (pc = "loop" /\ ev'.type = "MotionNotify")
      /\ SelectionInside => last_motion' >= last_motion
      /\ \A e \in { m \in MotionEvents : ev'.type = "MotionNotify" } :
           (MotionHandled(e) /\ SelectionInside) => e.time - last_motion >= 0
      /\ (/\ pc = "loop" /\ running /\ SelectionInside
          /\ ev'.type = "MotionNotify"
          /\ selection' = selection /\ last_motion' = last_motion)
           => pc' # "panic" ]_vars

====
